---- MODULE Spec2Model ----
(***************************************************************************)
(* Energy-consumption aggregation of energy-sync-py (database.py), its   *)
(* HTTP endpoints (api_app.py) and the sync run (sync_service.py).       *)
(*                                                                         *)
(* State: the Reading Store (point_series), the Consumption Store          *)
(* (energy_consumption), the wall clock, the last call with its result,   *)
(* the audit table sync_status and the population endpoint's cache.  The  *)
(* Point Catalog (points) is a fixed table.                               *)
(*                                                                         *)
(* Text columns are sequences of tokens, so that string concatenation is   *)
(* sequence concatenation: "B1_F1" is <<"B1", "_", "F1">>, the empty       *)
(* string is <<>>.  A timestamp text is a record [fmt, t, off]: its        *)
(* textual form, the wall time it spells (seconds since day 0, 00:00:00)   *)
(* and the UTC offset it spells (minutes).  Watt values are exact          *)
(* rationals <<numerator, denominator>> in lowest terms; float rounding    *)
(* is not modelled.                                                        *)
(***************************************************************************)
EXTENDS Integers, Sequences, FiniteSets, TLC

VARIABLES series, store, now, lastOp, nOps, sync_status, _population_cache

vars == <<series, store, now, lastOp, nOps, sync_status, _population_cache>>

\* ------------------------------------------------------------------ bounds

\* Rows the Reading Store may hold.
MaxSamples == 2
\* Aggregator calls in one behaviour.
MaxOps == 2

\* ------------------------------------------------------------- text values

\* Python None / SQL NULL in a text column.
None == <<"<None>">>
\* SQL NULL in a numeric column; a present number n is <<n>>.
NullNum == <<>>

\* The texts used as ids, in SQLite BINARY (memcmp) order; NULL sorts first.
TextOrder ==
    << <<>>, <<"B1">>, <<"B1", "_", "F1">>, <<"F1">>, <<"F1", "_", "S1">>, <<"S1">>,
       <<"null">> >>

RECURSIVE IndexOf(_, _, _)
IndexOf(seq, x, i) ==
    IF i > Len(seq) THEN 0
    ELSE IF seq[i] = x THEN i ELSE IndexOf(seq, x, i + 1)

\* Sort rank of a text column value under ORDER BY ... ASC.
TextRank(x) == IF x = None THEN 0 ELSE IndexOf(TextOrder, x, 1)

\* ------------------------------------------------------------- timestamps

Day == 24 * 3600
HalfHour == 30 * 60
\* Wall time hh:mm:ss of model day 1.
HMS(h, m, s) == Day + h * 3600 + m * 60 + s

\* Textual forms:
\*   "Z"    YYYY-MM-DDTHH:MM:SSZ
\*   "off"  YYYY-MM-DDTHH:MM:SS+HH:MM  (or -HH:MM)
\*   "sql"  YYYY-MM-DD HH:MM:SS        (no zone; what strftime writes)
\*   "junk" YYYY-MM-DDTHH:MM:SS.<not digits>  (fromisoformat rejects it)
\*   "bad"  a text no parser accepts
\*   "none" the argument was omitted (None)
TS(fmt, t, off) == [fmt |-> fmt, t |-> t, off |-> off]
NoTime == TS("none", 0, 0)
BadTime == TS("bad", 0, 0)

\* Offset of the process's local zone (seconds), which astimezone() assumes
\* for a datetime without tzinfo.
LocalUtcOffset == 0

\* The key under which SQLite's BINARY collation orders the text: the date,
\* the separator (' ' < 'T'), the time of day, the suffix
\* ("" < "+hh:mm" < "-hh:mm" < ".junk" < "Z").  An unparseable text is taken
\* to start with a letter, which sorts after every digit.
SuffixRank(ts) ==
    CASE ts.fmt = "sql" -> 0
      [] ts.fmt = "off" -> IF ts.off >= 0 THEN 1000 + ts.off ELSE 3000 - ts.off
      [] ts.fmt = "junk" -> 5000
      [] ts.fmt = "Z" -> 6000
      [] OTHER -> 0

StrKey(ts) ==
    IF ts.fmt = "bad" THEN <<1000000, 0, 0, 0>>
    ELSE << ts.t \div Day, IF ts.fmt = "sql" THEN 0 ELSE 1, ts.t % Day, SuffixRank(ts) >>

\* a < b for integer tuples of one length, lexicographically.
LexLess(a, b) ==
    \E i \in 1..Len(a) :
        /\ a[i] < b[i]
        /\ \A j \in 1..(i - 1) : a[j] = b[j]

\* SQL text comparison  x >= y  and  x <= y.
TextGE(x, y) == ~LexLess(StrKey(x), StrKey(y))
TextLE(x, y) == ~LexLess(StrKey(y), StrKey(x))

\* parse_ts: the datetime a sample's timestamp text denotes: its wall time, its
\* UTC offset in seconds, and whether it carries tzinfo.
parse_ts(ts, clock) ==
    CASE ts.fmt = "Z" -> [t |-> ts.t, off |-> 0, aware |-> TRUE]
      [] ts.fmt = "off" -> [t |-> ts.t, off |-> ts.off * 60, aware |-> TRUE]
      [] ts.fmt = "sql" -> [t |-> ts.t, off |-> 0, aware |-> FALSE]
      [] ts.fmt = "junk" -> [t |-> ts.t, off |-> 0, aware |-> TRUE]
      [] OTHER -> [t |-> clock, off |-> 0, aware |-> TRUE]

\* The alignment with minute 30 itself sent to minute 0.
AlignWallTimeLate(t) ==
    (t - (t % 3600)) + (IF (t % 3600) \div 60 <= 30 THEN 0 ELSE HalfHour)

\* dt.replace(minute = 0 if dt.minute < 30 else 30, second = 0, microsecond = 0)
AlignWallTime(t) ==
    (t - (t % 3600)) + (IF (t % 3600) \div 60 < 30 THEN 0 ELSE HalfHour)

\* bucket_dt.astimezone(timezone.utc): the UTC wall time of the datetime.
ToUtc(dt) == IF dt.aware THEN dt.t - dt.off ELSE dt.t - LocalUtcOffset

\* bucket_str: align the wall time as parsed, convert to UTC, format.
BucketStr(ts, clock) ==
    LET dt == parse_ts(ts, clock)
        bucket_dt == [dt EXCEPT !.t = AlignWallTime(dt.t)]
    IN TS("sql", ToUtc(bucket_dt), 0)

\* ---------------------------------------------------------------- numbers

RECURSIVE GCD(_, _)
GCD(a, b) == IF b = 0 THEN a ELSE GCD(b, a % b)

\* n / d in lowest terms (n >= 0, d > 0).
Frac(n, d) == LET g == GCD(n, d) IN <<n \div g, d \div g>>

FracAdd(a, b) == Frac(a[1] * b[2] + b[1] * a[2], a[2] * b[2])
FracMul(a, b) == Frac(a[1] * b[1], a[2] * b[2])

\* Python round(x): the nearest integer, a tie going to the even one.
Round(x) ==
    LET q == x[1] \div x[2]
        twice == 2 * (x[1] % x[2])
    IN IF twice > x[2] \/ (twice = x[2] /\ q % 2 = 1) THEN q + 1 ELSE q

\* round(x * 100) / 100
Round2(x) == Frac(Round(FracMul(x, <<100, 1>>)), 100)

\* Sum of the values of a set of <<row, value>> pairs.
RECURSIVE SumValues(_)
SumValues(pairs) ==
    IF pairs = {} THEN <<0, 1>>
    ELSE LET p == CHOOSE p \in pairs : TRUE
         IN FracAdd(p[2], SumValues(pairs \ {p}))

\* SQL SUM and AVG over the rows of a set: NULL over no rows.
SqlSum(pairs) == IF pairs = {} THEN NullNum ELSE SumValues(pairs)
SqlAvg(pairs) ==
    IF pairs = {} THEN NullNum
    ELSE FracMul(SumValues(pairs), <<1, Cardinality(pairs)>>)

\* ----------------------------------------------------------- Point Catalog

Point(id, b, f, s, u) ==
    [id |-> id, building_id |-> b, floor_id |-> f, space_id |-> s, unit_name |-> u]

Watt == <<"Watt">>

points ==
    { Point("pB", <<"B1">>, None, None, Watt),
      Point("pN", <<"B1">>, <<"null">>, None, Watt),
      Point("pE", <<"B1">>, <<>>, None, Watt),
      Point("pF", <<"B1">>, <<"F1">>, <<"S1">>, Watt),
      Point("pB2", <<"B1">>, None, None, Watt),
      Point("pT", <<"B1">>, None, None, <<"Celsius">>),
      Point("pU", <<"B1">>, None, None, None),
      Point("pY", <<"B1">>, <<"F1", "_", "S1">>, None, Watt),
      Point("pZ", <<"B1", "_", "F1">>, <<"S1">>, None, Watt) }

PointOf(id) == CHOOSE p \in points : p.id = id

\* ----------------------------------------------------------- model inputs

\* Timestamp texts the upstream API may deliver for a sample.
SampleTimes ==
    { TS("Z", HMS(12, 10, 0), 0),
      TS("Z", HMS(12, 29, 59), 0),
      TS("Z", HMS(12, 30, 0), 0),
      TS("off", HMS(18, 20, 0), 345),
      TS("sql", HMS(12, 30, 0), 0),
      TS("junk", HMS(12, 50, 0), 0),
      BadTime }

\* (float64Value, float32Value) of a sample.
SampleValues ==
    { <<<<100>>, NullNum>>, <<NullNum, <<200>>>>, <<<<300>>, <<200>>>>,
      <<NullNum, NullNum>> }

\* The families of (point, timestamp, value) the Reading Store is filled from:
\* points of every kind at one time, one point at every time, two points of
\* one location at one time with every value, and two points whose location
\* ids hold the separator '_'.
InputFamilies ==
    { ( ({"pB"} \X {TS("Z", HMS(12, 10, 0), 0)} \X {<<<<300>>, NullNum>>})
        \cup ({"pN", "pE", "pF", "pT", "pU"} \X {TS("Z", HMS(12, 10, 0), 0)}
                   \X {<<<<100>>, NullNum>>}) ),
      {"pB"} \X SampleTimes \X {<<<<300>>, NullNum>>},
      {"pB", "pB2"} \X {TS("Z", HMS(12, 10, 0), 0)} \X SampleValues,
      ( ({"pY"} \X {TS("Z", HMS(12, 10, 0), 0)} \X {<<<<300>>, NullNum>>})
        \cup ({"pZ"} \X {TS("Z", HMS(12, 10, 0), 0)} \X {<<<<100>>, NullNum>>}) ) }

\* The samples behind the stores the read endpoints are asked about: one
\* building at a UTC time, at a time with an offset and at a malformed time,
\* and a second building.
ApiSamples ==
    { <<"pB", TS("Z", HMS(12, 10, 0), 0), <<<<300>>, NullNum>>>>,
      <<"pB", TS("off", HMS(18, 20, 0), 345), <<<<300>>, NullNum>>>>,
      <<"pB", TS("junk", HMS(12, 50, 0), 0), <<<<300>>, NullNum>>>>,
      <<"pZ", TS("Z", HMS(12, 10, 0), 0), <<<<100>>, NullNum>>>> }

\* startTime / endTime arguments of a backfill call: omitted; a window that
\* starts off the half hour at one sample's timestamp and ends at another's; a
\* window on half-hour boundaries, written the way bucket starts are stored; a
\* window in ISO form that holds the first clock reading.
Windows ==
    { <<NoTime, NoTime>>,
      <<TS("Z", HMS(12, 10, 0), 0), TS("Z", HMS(12, 30, 0), 0)>>,
      <<TS("sql", HMS(12, 0, 0), 0), TS("sql", HMS(13, 0, 0), 0)>>,
      <<TS("Z", HMS(12, 0, 0), 0), TS("Z", HMS(13, 20, 0), 0)>> }

\* startTime / endTime parameters of a read request: omitted, or a window
\* written the way bucket starts are stored.
ReadWindows ==
    { <<NoTime, NoTime>>,
      <<TS("sql", HMS(12, 0, 0), 0), TS("sql", HMS(13, 0, 0), 0)>> }

\* The readings of the wall clock, in two different half hours.
ClockStart == HMS(13, 10, 0)
ClockReadings == { ClockStart, HMS(13, 35, 0) }

\* ------------------------------------------------------------ Reading Store

\* upsert_point_series: the row id is "<point_id>_<timestamp>"; a row with that
\* id is overwritten.
SeriesRow(point_id, ts, v) ==
    [point_id |-> point_id, timestamp |-> ts, float64_value |-> v[1], float32_value |-> v[2]]

SameSeriesId(r, point_id, ts) == r.point_id = point_id /\ r.timestamp = ts

\* COALESCE(ps.float64_value, ps.float32_value)
Coalesce(a, b) == IF a # NullNum THEN a ELSE b

\* One row of the aggregators' SELECT: points JOIN point_series.
JoinRow(r) ==
    LET p == PointOf(r.point_id)
    IN [point_id |-> r.point_id, building_id |-> p.building_id,
        floor_id |-> p.floor_id, space_id |-> p.space_id,
        timestamp |-> r.timestamp,
        watt_value |-> Coalesce(r.float64_value, r.float32_value)]

\* The selection without the test of the unit.
EligibleAnyUnit(r) == r.float64_value # NullNum \/ r.float32_value # NullNum

\* WHERE p.unit_name = 'Watt' AND (float64_value IS NOT NULL OR float32_value IS NOT NULL)
Eligible(r) ==
    /\ PointOf(r.point_id).unit_name = Watt
    /\ (r.float64_value # NullNum \/ r.float32_value # NullNum)

\* The rows backfill selects: eligible, and inside the window as SQLite compares
\* the timestamp texts.
BackfillRows(rs, start_time, end_time) ==
    { JoinRow(r) : r \in
        { r \in rs :
            /\ Eligible(r)
            /\ (start_time # NoTime => TextGE(r.timestamp, start_time))
            /\ (end_time # NoTime => TextLE(r.timestamp, end_time)) } }

\* ORDER BY p.building_id, p.floor_id, p.space_id, ps.timestamp
OrderKey(row) ==
    <<TextRank(row.building_id), TextRank(row.floor_id), TextRank(row.space_id)>>
        \o StrKey(row.timestamp)

RECURSIVE SortRows(_)
SortRows(rows) ==
    IF rows = {} THEN <<>>
    ELSE LET first == CHOOSE r \in rows :
                          \A q \in rows : ~LexLess(OrderKey(q), OrderKey(r))
         IN <<first>> \o SortRows(rows \ {first})

\* -------------------------------------------------------- Consumption Store

\* `floor_id or 'null'`: None and the empty string are both falsy.
OrNull(x) == IF x = None \/ x = <<>> THEN <<"null">> ELSE x

\* f"{building_id}_{floor_id or 'null'}_{space_id or 'null'}_{timestamp}".  The
\* timestamp text holds no '_', so the text up to the last '_' and the timestamp
\* text after it determine the whole string.
RecordKey(building_id, floor_id, space_id, ts) ==
    [pre |-> building_id \o <<"_">> \o OrNull(floor_id) \o <<"_">>
                \o OrNull(space_id) \o <<"_">>,
     ts |-> ts]

\* The insert without the replacement of the row of the same id.
UpsertKeepsOld(st, rec) == st \cup {rec}

\* INSERT OR REPLACE INTO energy_consumption: id is the primary key.
Upsert(st, rec) == { r \in st : r.id # rec.id } \cup {rec}

RECURSIVE UpsertAll(_, _)
UpsertAll(st, recs) ==
    IF recs = <<>> THEN st ELSE UpsertAll(Upsert(st, Head(recs)), Tail(recs))

\* Position of the group with this key in the dict (0: not in it).
RECURSIVE FindKey(_, _, _)
FindKey(groups, key, i) ==
    IF i > Len(groups) THEN 0
    ELSE IF groups[i].key = key THEN i ELSE FindKey(groups, key, i + 1)

\* --- backfill_energy_consumption

\* The loop over the rows: one group per key, in insertion order, holding the
\* columns of the key's first row and the running sum and count.
RECURSIVE BackfillBuckets(_, _, _)
BackfillBuckets(rows, clock, buckets) ==
    IF rows = <<>> THEN buckets
    ELSE LET r == Head(rows)
             bucket_str == BucketStr(r.timestamp, clock)
             key == RecordKey(r.building_id, r.floor_id, r.space_id, bucket_str)
             i == FindKey(buckets, key, 1)
             grouped == IF i = 0
                        THEN [key |-> key, building_id |-> r.building_id,
                              floor_id |-> r.floor_id, space_id |-> r.space_id,
                              timestamp |-> bucket_str, sum_watts |-> 0, count |-> 0]
                        ELSE buckets[i]
             updated == [grouped EXCEPT !.sum_watts = @ + r.watt_value[1],
                                        !.count = @ + 1]
         IN BackfillBuckets(Tail(rows), clock,
                            IF i = 0 THEN Append(buckets, updated)
                            ELSE [buckets EXCEPT ![i] = updated])

\* The sum stored where the mean belongs.
AvgWattsIsSum(g) == Frac(g.sum_watts, 1)

\* avg_watts = sum_watts / count
AvgWatts(g) == IF g.count > 0 THEN Frac(g.sum_watts, g.count) ELSE <<0, 1>>

\* total_kwh = (avg_watts / 1000.0) * 0.5
HalfHourKwh(avg_watts) == Frac(avg_watts[1], avg_watts[2] * 1000 * 2)

BackfillRecord(g, now_iso) ==
    [id |-> g.key, building_id |-> g.building_id, floor_id |-> g.floor_id,
     space_id |-> g.space_id, timestamp |-> g.timestamp,
     total_watts |-> AvgWatts(g), total_kwh |-> HalfHourKwh(AvgWatts(g)),
     calculation_timestamp |-> now_iso]

\* DELETE FROM energy_consumption [WHERE timestamp >= ? AND timestamp <= ?]
RebuildDelete(st, start_time, end_time) ==
    { r \in st :
        ~ ( /\ (start_time # NoTime => TextGE(r.timestamp, start_time))
            /\ (end_time # NoTime => TextLE(r.timestamp, end_time)) ) }

\* The store a backfill call leaves, and the records it writes.
BackfillWrites(rs, start_time, end_time, clock) ==
    LET buckets == BackfillBuckets(SortRows(BackfillRows(rs, start_time, end_time)),
                                   clock, <<>>)
    IN [i \in 1..Len(buckets) |-> BackfillRecord(buckets[i], clock)]

\* The rebuild delete done before the check for an empty selection.
BackfillStoreDeletesFirst(st, rs, start_time, end_time, rebuild, clock) ==
    UpsertAll(IF rebuild THEN RebuildDelete(st, start_time, end_time) ELSE st,
              BackfillWrites(rs, start_time, end_time, clock))

\* The delete done whether or not rebuild was asked for.
BackfillStoreAlwaysDeletes(st, rs, start_time, end_time, rebuild, clock) ==
    IF BackfillRows(rs, start_time, end_time) = {} THEN st
    ELSE UpsertAll(RebuildDelete(st, start_time, end_time),
                   BackfillWrites(rs, start_time, end_time, clock))

BackfillStore(st, rs, start_time, end_time, rebuild, clock) ==
    IF BackfillRows(rs, start_time, end_time) = {} THEN st
    ELSE UpsertAll(IF rebuild THEN RebuildDelete(st, start_time, end_time) ELSE st,
                   BackfillWrites(rs, start_time, end_time, clock))

\* --- calculate_and_store_energy_consumption

IncrementalRows(rs) == { JoinRow(r) : r \in { r \in rs : Eligible(r) } }

\* The loop over the rows: one entry per key (location and raw timestamp),
\* total_watts accumulating the watt values.
RECURSIVE ConsumptionMap(_, _)
ConsumptionMap(rows, cmap) ==
    IF rows = <<>> THEN cmap
    ELSE LET r == Head(rows)
             key == RecordKey(r.building_id, r.floor_id, r.space_id, r.timestamp)
             i == FindKey(cmap, key, 1)
         IN ConsumptionMap(Tail(rows),
                IF i = 0
                THEN Append(cmap, [key |-> key, building_id |-> r.building_id,
                                   floor_id |-> r.floor_id, space_id |-> r.space_id,
                                   timestamp |-> r.timestamp,
                                   total_watts |-> r.watt_value[1]])
                ELSE [cmap EXCEPT ![i].total_watts = @ + r.watt_value[1]])

\* total_kwh = total_watts / 1000
InstantKwh(total_watts) == Frac(total_watts, 1000)

IncrementalRecord(c, current_time) ==
    [id |-> c.key, building_id |-> c.building_id, floor_id |-> c.floor_id,
     space_id |-> c.space_id, timestamp |-> c.timestamp,
     total_watts |-> Frac(c.total_watts, 1), total_kwh |-> InstantKwh(c.total_watts),
     calculation_timestamp |-> current_time]

IncrementalWrites(rs, clock) ==
    LET cmap == ConsumptionMap(SortRows(IncrementalRows(rs)), <<>>)
    IN [i \in 1..Len(cmap) |-> IncrementalRecord(cmap[i], clock)]

\* ------------------------------------------------------------------ actions

\* resolution parameter of GET /api/population (regex ^(US|r4|r6)$).
Resolutions == {"US", "r4", "r6"}

\* _population_cache.get(resolution) when the key is absent: None.
NoEntry == [ts |-> -1, data |-> -1]

Call(op, start_time, end_time, rebuild, ret) ==
    [op |-> op, start_time |-> start_time, end_time |-> end_time,
     rebuild |-> rebuild, ret |-> ret]

\* A call that ends in an exception (or with the death of the process) after
\* `done` of its upserts were executed: it returns nothing.
Raised(op, start_time, end_time, rebuild, done) ==
    [op |-> op, start_time |-> start_time, end_time |-> end_time,
     rebuild |-> rebuild, ret |-> -1, done |-> done]

\* POST /api/maintenance/backfill-energy: the answer to a backfill call that
\* returned (JSON success with the count) or raised (HTTPException 500 with
\* str(e) as detail).
backfill_energy(call) ==
    IF call.op = "backfill"
    THEN [status_code |-> 200, success |-> TRUE, recordsProcessed |-> call.ret]
    ELSE [status_code |-> 500, detail |-> "str(e)"]

Init ==
    /\ series = {}
    /\ store = {}
    /\ now = ClockStart
    /\ lastOp = Call("none", NoTime, NoTime, FALSE, 0)
    /\ nOps = 0
    /\ sync_status = <<>>
    /\ _population_cache = [resolution \in Resolutions |-> NoEntry]

\* The wall clock advances.
Tick ==
    /\ \E t \in ClockReadings : t > now /\ now' = t
    /\ UNCHANGED <<series, store, lastOp, nOps, sync_status, _population_cache>>

upsert_point_series ==
    /\ nOps = 0
    /\ \E family \in InputFamilies : \E in \in family :
        /\ \A r \in series :
              <<r.point_id, r.timestamp, <<r.float64_value, r.float32_value>>>> \in family
        /\ \/ \E r \in series : SameSeriesId(r, in[1], in[2])
           \/ Cardinality(series) < MaxSamples
        /\ series' = { r \in series : ~SameSeriesId(r, in[1], in[2]) }
                        \cup { SeriesRow(in[1], in[2], in[3]) }
        /\ UNCHANGED <<store, now, lastOp, nOps, sync_status, _population_cache>>

calculate_and_store_energy_consumption ==
    /\ nOps < MaxOps
    /\ LET writes == IncrementalWrites(series, now)
       IN /\ store' = UpsertAll(store, writes)
          /\ lastOp' = Call("incremental", NoTime, NoTime, FALSE, Len(writes))
    /\ nOps' = nOps + 1
    /\ UNCHANGED <<series, now, sync_status, _population_cache>>

backfill_energy_consumption ==
    /\ nOps < MaxOps
    /\ \E window \in Windows, rebuild \in BOOLEAN :
      LET start_time == window[1]
          end_time == window[2]
      IN
        /\ store' = BackfillStore(store, series, start_time, end_time, rebuild, now)
        /\ lastOp' = Call("backfill", start_time, end_time, rebuild,
                          Len(BackfillWrites(series, start_time, end_time, now)))
        /\ nOps' = nOps + 1
        /\ UNCHANGED <<series, now, sync_status, _population_cache>>

\* calculate_and_store_energy_consumption when an INSERT OR REPLACE raises (or
\* the process dies) after `done` upserts: the only commit is after the loop,
\* and leaving `with conn` by an exception rolls the transaction back.
calculate_and_store_energy_consumption_fails ==
    /\ nOps < MaxOps
    /\ \E done \in 0..(Len(IncrementalWrites(series, now)) - 1) :
          lastOp' = Raised("incremental_failed", NoTime, NoTime, FALSE, done)
    /\ store' = store
    /\ nOps' = nOps + 1
    /\ UNCHANGED <<series, now, sync_status, _population_cache>>

\* backfill_energy_consumption when an INSERT OR REPLACE raises (or the process
\* dies) after `done` upserts: the rebuild delete was committed on its own
\* before the loop, the upserts are rolled back.
backfill_energy_consumption_fails ==
    /\ nOps < MaxOps
    /\ \E window \in Windows, rebuild \in BOOLEAN :
         LET start_time == window[1]
             end_time == window[2]
         IN /\ \E done \in 0..(Len(BackfillWrites(series, start_time, end_time, now)) - 1) :
                  lastOp' = Raised("backfill_failed", start_time, end_time, rebuild, done)
            /\ store' = IF rebuild THEN RebuildDelete(store, start_time, end_time)
                         ELSE store
    /\ nOps' = nOps + 1
    /\ UNCHANGED <<series, now, sync_status, _population_cache>>

\* ------------------------------------------------------ Query/Summary Layer

\* schema.schema_loader.execute_schema_script: creates the tables that do not
\* exist yet; the rows of the existing tables stay as they are.
execute_schema_script(rows) == rows

SchemaCompatibilityDropsRows(rows) == {}

\* Database._ensure_schema_compatibility: ALTER TABLE ... ADD COLUMN on
\* buildings, floors and spaces; energy_consumption is not named.
_ensure_schema_compatibility(rows) == rows

\* Database.initialize: the PRAGMAs, the schema script, the compatibility pass.
initialize(rows) == _ensure_schema_compatibility(execute_schema_script(rows))

ensure_initialized(rows) == initialize(rows)

\* buildingId parameter of a request: omitted, a building with records, a
\* building without.
BuildingIds == { None, <<"B1">>, <<"B2">> }

\* timeRange of GET /api/energy after time_range_map.
TimeRanges == { "day", "month" }

\* aggregation of GET /api/energy: grouped by period, or any other word (the
\* single records).
Aggregations == { "hourly", "raw" }

\* get_time_range_duration_ms, in seconds: timedelta(milliseconds=duration_ms)
\* is this many whole seconds.
get_time_range_duration(time_range) ==
    CASE time_range = "week" -> 7 * 24 * 60 * 60
      [] time_range = "month" -> 30 * 24 * 60 * 60
      [] OTHER -> 24 * 60 * 60

get_time_range_config(time_range) ==
    IF time_range \in {"week", "month"}
    THEN [sqlFormat |-> "%Y-%m-%d", aggregation |-> "daily"]
    ELSE [sqlFormat |-> "%Y-%m-%d %H:%M:00", aggregation |-> "30minute"]

\* datetime.isoformat() of an aware UTC datetime (whole second).
isoformat(t) == TS("off", t, 0)

\* The instant SQLite's date functions read from a text (UTC seconds): NULL for
\* a text they cannot parse.
SqlUtc(ts) ==
    CASE ts.fmt \in {"sql", "Z"} -> <<ts.t>>
      [] ts.fmt = "off" -> <<ts.t - ts.off * 60>>
      [] OTHER -> NullNum

\* strftime(format, timestamp), the period a record falls in; "30minute" is
\* strftime('%Y-%m-%d %H:') || ('00:00' or '30:00').
strftime(format, ts) ==
    LET u == SqlUtc(ts)
    IN IF u = NullNum THEN NullNum
       ELSE CASE format = "%Y-%m-%d" -> <<u[1] - (u[1] % Day)>>
              [] format = "%Y-%m-%d %H:%M:00" -> <<u[1] - (u[1] % 60)>>
              [] OTHER -> <<(u[1] - (u[1] % 3600))
                              + (IF (u[1] % 3600) \div 60 < 30 THEN 0 ELSE HalfHour)>>

\* WHERE [building_id = ?] [AND timestamp >= ?] [AND timestamp <= ?]
Where(rows, buildingId, start, end) ==
    { e \in rows :
        /\ (buildingId # None => e.building_id = buildingId)
        /\ (start # NoTime => TextGE(e.timestamp, start))
        /\ (end # NoTime => TextLE(e.timestamp, end)) }

\* total_kwh * 0.12
CostUsd(total_kwh) == FracMul(total_kwh, <<12, 100>>)

\* summary_sql of get_energy: the mean of each period, then COUNT, AVG and SUM
\* over the periods.
EnergySummary(matching, sqlFormat) ==
    LET in_period(p) == { e \in matching : strftime(sqlFormat, e.timestamp) = p }
        period_totals ==
            { [period |-> p,
               period_consumption |-> SqlAvg({ <<e, e.total_kwh>> : e \in in_period(p) }),
               period_cost |-> SqlAvg({ <<e, CostUsd(e.total_kwh)>> : e \in in_period(p) })] :
              p \in { strftime(sqlFormat, e.timestamp) : e \in matching } }
        consumption == { <<t.period, t.period_consumption>> : t \in period_totals }
        cost == { <<t.period, t.period_cost>> : t \in period_totals }
    IN [total_periods |-> Cardinality(period_totals),
        total_records |-> Cardinality(period_totals),
        avg_consumption |-> SqlAvg(consumption),
        total_consumption |-> SqlSum(consumption),
        avg_cost |-> SqlAvg(cost),
        total_cost |-> SqlSum(cost),
        avg_efficiency |-> IF period_totals = {} THEN NullNum ELSE <<75, 1>>]

\* GET /api/energy: the records from now - duration on (text comparison with
\* start_iso), grouped or single, and the summary over the periods.
get_energy ==
    /\ \E buildingId \in BuildingIds, timeRange \in TimeRanges, aggregation \in Aggregations :
         LET rows == ensure_initialized(store)
             config == get_time_range_config(timeRange)
             start_iso == isoformat(now - get_time_range_duration(timeRange))
             matching == Where(rows, buildingId, start_iso, NoTime)
             used_agg == IF aggregation \in {"hourly", "daily"}
                         THEN config.aggregation ELSE aggregation
             energy_data ==
                 IF used_agg \in {"minute", "30minute", "hourly", "daily", "weekly"}
                 THEN Cardinality({ strftime(IF used_agg = "30minute" THEN "30minute"
                                             ELSE config.sqlFormat, e.timestamp) :
                                    e \in matching })
                 ELSE Cardinality(matching)
         IN /\ store' = rows
            /\ lastOp' = [op |-> "get_energy", status_code |-> 200, success |-> TRUE,
                          buildingId |-> buildingId, timeRange |-> timeRange,
                          aggregation |-> used_agg, energyData |-> energy_data,
                          summary |-> EnergySummary(matching, config.sqlFormat)]
    /\ UNCHANGED <<series, now, nOps, sync_status, _population_cache>>

\* MAX(calculation_timestamp)
LatestCalculation(rows) ==
    IF rows = {} THEN NullNum
    ELSE <<CHOOSE t \in { r.calculation_timestamp : r \in rows } :
               \A r \in rows : r.calculation_timestamp <= t>>

\* GET /api/energy-consumption for a building id out of buildingIds: the
\* records with building_id = buildingId, timestamp >= startTime and
\* timestamp <= endTime (text comparison), and the summary over them.
energy_consumption_of(buildingIds) ==
    /\ \E buildingId \in buildingIds, window \in ReadWindows :
         LET startTime == window[1]
             endTime == window[2]
             rows == ensure_initialized(store)
             consumption == Where(rows, buildingId, startTime, endTime)
         IN /\ store' = rows
            /\ lastOp' =
                 [op |-> "energy_consumption", status_code |-> 200, success |-> TRUE,
                  buildingId |-> buildingId, start_time |-> startTime, end_time |-> endTime,
                  rebuild |-> FALSE, ret |-> Cardinality(consumption),
                  summary |->
                    [total_records |-> Cardinality(consumption),
                     total_watts |-> Coalesce(SqlSum({ <<e, e.total_watts>> : e \in consumption }),
                                              <<0, 1>>),
                     total_kwh |-> Coalesce(SqlSum({ <<e, e.total_kwh>> : e \in consumption }),
                                            <<0, 1>>),
                     avg_watts |-> Coalesce(SqlAvg({ <<e, e.total_watts>> : e \in consumption }),
                                            <<0, 1>>),
                     latest_calculation |-> LatestCalculation(consumption)]]
    /\ UNCHANGED <<series, now, nOps, sync_status, _population_cache>>

\* The endpoint asked without a building id, as the aggregator's callers do.
energy_consumption == energy_consumption_of({None})

\* timeRange of GET /api/analytics/historical and its length in days.
AnalyticsRanges == { "day", "year" }
RangeDays(timeRange) ==
    CASE timeRange = "day" -> 1
      [] timeRange = "week" -> 7
      [] timeRange = "month" -> 30
      [] OTHER -> 365

\* The energy_usage table, which the seed endpoint creates: absent, empty, or
\* holding one row.
EnergyUsageRow ==
    [timestamp |-> TS("sql", HMS(12, 0, 0), 0), building_id |-> <<"B1">>,
     consumption_kwh |-> <<5, 1>>, cost_usd |-> <<3, 5>>, efficiency_score |-> <<4, 5>>]
EnergyUsageTables ==
    { [exists |-> FALSE, rows |-> {}], [exists |-> TRUE, rows |-> {}],
      [exists |-> TRUE, rows |-> {EnergyUsageRow}] }

\* The fallback's columns: total_kwh, total_kwh * 0.12, 0.75.
FallbackRow(e) ==
    [timestamp |-> e.timestamp, building_id |-> e.building_id, consumption_kwh |-> e.total_kwh,
     cost_usd |-> CostUsd(e.total_kwh), efficiency_score |-> <<3, 4>>, of |-> e.id]

\* energy_sql: one row per DATE(timestamp) with SUM, SUM, AVG.
DailyRows(matching) ==
    LET on(d) == { r \in matching : strftime("%Y-%m-%d", r.timestamp) = d }
    IN { [date |-> d,
          total_consumption |-> SqlSum({ <<r, r.consumption_kwh>> : r \in on(d) }),
          total_cost |-> SqlSum({ <<r, r.cost_usd>> : r \in on(d) }),
          avg_efficiency |-> SqlAvg({ <<r, r.efficiency_score>> : r \in on(d) })] :
         d \in { strftime("%Y-%m-%d", r.timestamp) : r \in matching } }

\* The k latest of a set of <<date, value>> pairs (ORDER BY date ASC puts a
\* NULL date first).
RECURSIVE Latest(_, _)
Latest(values, k) ==
    IF k = 0 \/ values = {} THEN {}
    ELSE LET v == CHOOSE v \in values :
                     /\ v[1] # NullNum \/ (\A w \in values : w[1] = NullNum)
                     /\ \A w \in values : (w[1] # NullNum /\ v[1] # NullNum) => w[1][1] <= v[1][1]
         IN {v} \cup Latest(values \ {v}, k - 1)

\* week_over_week_trend / cost_trend over the <<date, value>> pairs of the
\* daily data: 0.0 with fewer than 14 days or a previous week without
\* consumption.
Trend(values) ==
    IF Cardinality(values) < 14 THEN <<0, 1>>
    ELSE LET this_week == Latest(values, 7)
             last_week == Latest(values, 14) \ this_week
             this_sum == SumValues(this_week)
             last_sum == SumValues(last_week)
         IN IF last_sum[1] > 0
            THEN Frac((this_sum[1] * last_sum[2] - last_sum[1] * this_sum[2]) * 100,
                      last_sum[1] * this_sum[2])
            ELSE <<0, 1>>

\* "consumption" and "cost" of a day in the combined daily data.
Consumption(d) == Round2(Coalesce(d.total_consumption, <<0, 1>>))
Cost(d) == Round2(Coalesce(d.total_cost, <<0, 1>>))

\* GET /api/analytics/historical: the daily rows of energy_usage, or of
\* energy_consumption when that table is missing, between now - range and now
\* (text comparison), and the summary over them.
analytics_historical ==
    /\ \E timeRange \in AnalyticsRanges, buildingId \in BuildingIds,
          energy_usage \in EnergyUsageTables :
         LET rows == ensure_initialized(store)
             start == now - RangeDays(timeRange) * Day
             table == IF energy_usage.exists THEN energy_usage.rows
                      ELSE { FallbackRow(e) : e \in rows }
             energy_data == DailyRows(Where(table, buildingId, isoformat(start), isoformat(now)))
             total_consumption ==
                 SumValues({ <<d.date, Coalesce(d.total_consumption, <<0, 1>>)>> : d \in energy_data })
             total_cost ==
                 SumValues({ <<d.date, Coalesce(d.total_cost, <<0, 1>>)>> : d \in energy_data })
             avg_efficiency ==
                 IF energy_data # {}
                 THEN FracMul(SumValues({ <<d.date, Coalesce(d.avg_efficiency, <<0, 1>>)>> :
                                          d \in energy_data }),
                              <<1, Cardinality(energy_data)>>)
                 ELSE <<0, 1>>
         IN /\ store' = rows
            /\ lastOp' =
                 [op |-> "analytics_historical", status_code |-> 200, success |-> TRUE,
                  buildingId |-> buildingId, timeRange |-> timeRange,
                  recordCount |-> Cardinality(energy_data),
                  summary |->
                    [totalConsumption |-> total_consumption,
                     totalCost |-> total_cost,
                     avgEfficiency |-> Round2(avg_efficiency),
                     consumptionTrend |-> Round2(Trend({ <<d.date, Consumption(d)>> : d \in energy_data })),
                     costTrend |-> Round2(Trend({ <<d.date, Cost(d)>> : d \in energy_data }))]]
    /\ UNCHANGED <<series, now, nOps, sync_status, _population_cache>>

\* The energy stats of GET /api/buildings: one aggregate row over the records
\* of the last day.
EnergyStats(matching) ==
    [avg_consumption |-> SqlAvg({ <<e, e.total_kwh>> : e \in matching }),
     total_consumption |-> SqlSum({ <<e, e.total_kwh>> : e \in matching }),
     avg_cost |-> SqlAvg({ <<e, CostUsd(e.total_kwh)>> : e \in matching }),
     total_cost |-> SqlSum({ <<e, CostUsd(e.total_kwh)>> : e \in matching }),
     avg_efficiency |-> <<75, 1>>,
     record_count |-> Cardinality(matching)]

\* GET /api/buildings.  `known` says whether the buildings table holds B1.  With
\* an id: 404 for a building that is not there, else the building with its
\* stats when asked for; without: the list, each building with the stats of its
\* group, None for a building without records.
get_buildings ==
    /\ \E includeStats \in BOOLEAN, id \in {None, <<"B1">>}, known \in BOOLEAN :
         LET rows == ensure_initialized(store)
             last_day == TS("sql", now - Day, 0)
             matching == Where(rows, <<"B1">>, last_day, NoTime)
             energyStats ==
                 IF ~includeStats \/ ~known THEN <<>>
                 ELSE IF id = None /\ matching = {} THEN <<>>
                 ELSE <<EnergyStats(matching)>>
         IN /\ store' = rows
            /\ lastOp' =
                 IF id # None /\ ~known
                 THEN [op |-> "get_buildings", status_code |-> 404, success |-> FALSE,
                       id |-> id, energyStats |-> <<>>]
                 ELSE [op |-> "get_buildings", status_code |-> 200, success |-> TRUE,
                       id |-> id, energyStats |-> energyStats]
    /\ UNCHANGED <<series, now, nOps, sync_status, _population_cache>>

\* ---------------------------------------------------------------- sync runs

\* sync_type of run_full_sync and run_incremental_sync.
SyncTypes == {"full", "incremental"}

\* What a step of _run_sync (_sync_buildings, _sync_energy_data) comes to: it
\* returns its two counters, or it raises.
StepReturned(records_synced, errors_count) ==
    [attempted |-> TRUE, raised |-> FALSE,
     records_synced |-> records_synced, errors_count |-> errors_count]
StepRaised == [attempted |-> TRUE, raised |-> TRUE, records_synced |-> 0, errors_count |-> 0]
StepSkipped == [attempted |-> FALSE, raised |-> FALSE, records_synced |-> 0, errors_count |-> 0]
StepOutcomes == { StepRaised, StepReturned(0, 0), StepReturned(1, 0), StepReturned(0, 1) }

\* SELECT last_sync_timestamp FROM sync_status WHERE sync_type = ?
\* ORDER BY created_at DESC LIMIT 1; None without such a row.
get_last_sync_timestamp(sync_type) ==
    LET rows == { i \in 1..Len(sync_status) : sync_status[i].sync_type = sync_type }
    IN IF rows = {} THEN NullNum
       ELSE LET last == CHOOSE i \in rows :
                           \A j \in rows : sync_status[j].created_at <= sync_status[i].created_at
            IN <<sync_status[last].last_sync_timestamp>>

\* INSERT INTO sync_status: a new row (fresh uuid) stamped with the current time.
record_sync_status(sync_type, status, records_synced, errors_count) ==
    Append(sync_status,
           [last_sync_timestamp |-> now, sync_type |-> sync_type, status |-> status,
            records_synced |-> records_synced, errors_count |-> errors_count,
            created_at |-> now])

\* total_records += result["records_synced"]; nothing is added when the step raised.
StepRecords(result) == IF result.raised THEN 0 ELSE result.records_synced
\* total_errors += result["errors_count"], or += 1 when the step raised.
StepErrors(result) == IF result.raised THEN 1 ELSE result.errors_count

SyncStatusAlwaysCompleted(success) == "completed"
\* status = "completed" if success else "completed_with_errors"
SyncStatus(success) == IF success THEN "completed" ELSE "completed_with_errors"

\* The dict _run_sync returns, with what the run did: the lookup's answer, the
\* outcome of each step and whether the status row was written.
SyncResult(sync_type, success, records_synced, errors_count, last_sync, building_result, energy_result, recorded) ==
    [op |-> "sync", sync_type |-> sync_type, success |-> success,
     records_synced |-> records_synced, errors_count |-> errors_count,
     last_sync |-> last_sync, building_result |-> building_result,
     energy_result |-> energy_result, recorded |-> recorded]

\* SyncService._run_sync.  `initialized` is FALSE when db.initialize() (or the
\* last-sync lookup) raises: the outer handler answers and nothing else runs.
\* `recorded` is FALSE when record_sync_status raises: the failure is logged.
_run_sync ==
    /\ nOps < MaxOps
    /\ \E sync_type \in SyncTypes, initialized \in BOOLEAN :
         IF ~initialized
         THEN /\ lastOp' = SyncResult(sync_type, FALSE, 0, 0 + 1, NullNum,
                                      StepSkipped, StepSkipped, FALSE)
              /\ sync_status' = sync_status
         ELSE \E building_result, energy_result \in StepOutcomes, recorded \in BOOLEAN :
                LET last_sync == IF sync_type = "incremental"
                                 THEN get_last_sync_timestamp("data_sync")
                                 ELSE NullNum
                    total_records == StepRecords(building_result) + StepRecords(energy_result)
                    total_errors == StepErrors(building_result) + StepErrors(energy_result)
                    success == total_errors = 0
                    status == SyncStatus(success)
                IN /\ sync_status' = IF recorded
                                      THEN record_sync_status(sync_type, status,
                                                              total_records, total_errors)
                                      ELSE sync_status
                   /\ lastOp' = SyncResult(sync_type, success, total_records, total_errors,
                                           last_sync, building_result, energy_result, recorded)
    /\ nOps' = nOps + 1
    /\ UNCHANGED <<series, store, now, _population_cache>>

\* ----------------------------------------------------- population endpoint

_POP_CACHE_TTL_MS == 10 * 60 * 1000

\* time.time() as the population endpoint reads it: readings 5, 10 and 25
\* minutes after the first.
PopClockReadings ==
    { ClockStart, ClockStart + 5 * 60, ClockStart + 10 * 60, ClockStart + 25 * 60 }

\* The processed file of a resolution: absent, or holding one of two datasets.
NoFile == 0
FileVersions == {1, 2}
Files == {NoFile} \cup FileVersions

\* JSONResponse of the endpoint, with whether the file was read for it.  The
\* bbox filter, the sort and the limit act on the answer's copy of the data only.
PopulationResponse(resolution, data, cached, file_read) ==
    [op |-> "population", status_code |-> 200, source |-> resolution, data |-> data,
     cached |-> cached, file_read |-> file_read]

\* HTTPException(500) for a missing file.
PopulationNotFound(resolution) ==
    [op |-> "population", status_code |-> 500, source |-> resolution, data |-> NoFile,
     cached |-> FALSE, file_read |-> FALSE]

PopTick ==
    /\ \E t \in PopClockReadings : t > now /\ now' = t
    /\ UNCHANGED <<series, store, lastOp, nOps, sync_status, _population_cache>>

\* GET /api/population.
population ==
    /\ \E resolution \in Resolutions, file \in Files :
         LET now_ms == now * 1000
             cached == _population_cache[resolution]
         IN IF cached # NoEntry /\ (now_ms - cached.ts) < _POP_CACHE_TTL_MS
            THEN /\ lastOp' = PopulationResponse(resolution, cached.data,
                                                 cached # NoEntry, FALSE)
                 /\ _population_cache' = _population_cache
            ELSE IF file = NoFile
                 THEN /\ lastOp' = PopulationNotFound(resolution)
                      /\ _population_cache' = _population_cache
                 ELSE /\ _population_cache' =
                            [_population_cache EXCEPT ![resolution] =
                                                        [ts |-> now_ms, data |-> file]]
                      /\ lastOp' = PopulationResponse(resolution, file,
                                                      cached # NoEntry, TRUE)
    /\ UNCHANGED <<series, store, now, nOps, sync_status>>

Next ==
    \/ Tick
    \/ upsert_point_series
    \/ calculate_and_store_energy_consumption
    \/ calculate_and_store_energy_consumption_fails
    \/ backfill_energy_consumption
    \/ backfill_energy_consumption_fails
    \/ energy_consumption

Spec == Init /\ [][Next]_vars

\* The sync service on its own: runs of _run_sync and the clock.
SyncNext ==
    \/ Tick
    \/ _run_sync

\* The Query/Summary Layer on its own: the read endpoints over a store that an
\* aggregator left behind.
ApiInit ==
    /\ \E samples \in SUBSET ApiSamples :
         /\ Cardinality(samples) <= MaxSamples
         /\ series = { SeriesRow(in[1], in[2], in[3]) : in \in samples }
    /\ store \in { {},
                   BackfillStore({}, series, NoTime, NoTime, FALSE, ClockStart),
                   UpsertAll({}, IncrementalWrites(series, ClockStart)) }
    /\ now = ClockStart
    /\ lastOp = Call("none", NoTime, NoTime, FALSE, 0)
    /\ nOps = 0
    /\ sync_status = <<>>
    /\ _population_cache = [resolution \in Resolutions |-> NoEntry]

ApiNext ==
    \/ get_energy
    \/ energy_consumption_of(BuildingIds)
    \/ analytics_historical
    \/ get_buildings

ApiSpec == ApiInit /\ [][ApiNext]_vars

SyncSpec == Init /\ [][SyncNext]_vars

\* The population endpoint on its own: requests and the clock.
PopNext ==
    \/ PopTick
    \/ population

PopSpec == Init /\ [][PopNext]_vars

\* ------------------------------------------------------------------ claims

\* The aggregator call that this step makes.
IsCall == nOps' = nOps + 1

\* A record without its calculation timestamp.
Aggregate(r) ==
    [id |-> r.id, building_id |-> r.building_id, floor_id |-> r.floor_id,
     space_id |-> r.space_id, timestamp |-> r.timestamp,
     total_watts |-> r.total_watts, total_kwh |-> r.total_kwh]

Content(st) == { Aggregate(r) : r \in st }

Parseable(ts) == ts.fmt \in {"Z", "off", "sql", "junk"}

\* The instant a timestamp text denotes, in seconds of UTC; a text without a
\* zone is read as UTC, which is how bucket starts are stored.
InstantOf(ts) == IF ts.fmt = "off" THEN ts.t - ts.off * 60 ELSE ts.t

\* The start of the UTC half hour that holds the instant.
HalfHourFloor(t) == t - (t % HalfHour)

\* The rows of the Reading Store the last backfill call selected.
LastRows == { r \in series :
                /\ Eligible(r)
                /\ (lastOp.start_time # NoTime => TextGE(r.timestamp, lastOp.start_time))
                /\ (lastOp.end_time # NoTime => TextLE(r.timestamp, lastOp.end_time)) }

\* C1: two rebuild backfills of one window in succession, at any two clock
\* readings, leave the same records (ids, location, bucket start, watts, kWh).
C1_RebuildIdempotent ==
    [][ ( /\ IsCall
          /\ lastOp.op = "backfill" /\ lastOp.rebuild
          /\ lastOp'.op = "backfill" /\ lastOp'.rebuild
          /\ lastOp'.start_time = lastOp.start_time
          /\ lastOp'.end_time = lastOp.end_time )
        => Content(store') = Content(store) ]_vars

\* C2: a rebuild backfill of the window [T1, T2) leaves every record whose
\* bucket start is outside [T1, T2) in the store, unchanged.
C2_RebuildLeavesOutsideWindow ==
    [][ ( /\ IsCall
          /\ lastOp'.op = "backfill" /\ lastOp'.rebuild
          /\ lastOp'.start_time # NoTime /\ lastOp'.end_time # NoTime )
        => \A r \in store :
             ( /\ Parseable(r.timestamp)
               /\ \/ InstantOf(r.timestamp) < InstantOf(lastOp'.start_time)
                  \/ InstantOf(r.timestamp) >= InstantOf(lastOp'.end_time) )
             => r \in store' ]_vars

HasInstantKwh(r) == r.total_kwh[1] * r.total_watts[2] * 1000 = r.total_watts[1] * r.total_kwh[2]
HasHalfHourKwh(r) == r.total_kwh[1] * r.total_watts[2] * 2000 = r.total_watts[1] * r.total_kwh[2]

LocationOf(r) ==
    LET p == PointOf(r.point_id) IN <<p.building_id, p.floor_id, p.space_id>>

RecordLocation(rec) == <<rec.building_id, rec.floor_id, rec.space_id>>

\* The watt value of a Reading Store row: float64_value when present.
WattValue(r) ==
    IF r.float64_value # NullNum THEN r.float64_value[1] ELSE r.float32_value[1]

RECURSIVE SumWatts(_)
SumWatts(rows) ==
    IF rows = {} THEN 0
    ELSE LET r == CHOOSE x \in rows : TRUE IN WattValue(r) + SumWatts(rows \ {r})

\* The record's watt value is the mean of the rows, and its kWh is that mean
\* over 1000 times one half.
IsMeanOf(rec, rows) ==
    /\ rec.total_watts[1] * Cardinality(rows) = rec.total_watts[2] * SumWatts(rows)
    /\ HasHalfHourKwh(rec)

\* The selected rows of the row's location whose instant is in its UTC half hour.
SameLocationAndHalfHour(r) ==
    { q \in LastRows :
        /\ Parseable(q.timestamp)
        /\ LocationOf(q) = LocationOf(r)
        /\ HalfHourFloor(InstantOf(q.timestamp)) = HalfHourFloor(InstantOf(r.timestamp)) }

\* One of the two rows has no floor (or no space) where the other has one.
AbsentVersusPresent(a, b) ==
    /\ LocationOf(a)[1] = LocationOf(b)[1]
    /\ \/ LocationOf(a)[2] = None /\ LocationOf(b)[2] # None
       \/ LocationOf(a)[3] = None /\ LocationOf(b)[3] # None

\* C4: in backfill, a sample of a point without floor (or space) and a sample of
\* a point with one, of the same building and half hour, are averaged apart and
\* written as two records.
C4_AbsentFloorAveragedApart ==
    lastOp.op = "backfill" =>
        \A a, b \in LastRows :
            ( /\ Parseable(a.timestamp) /\ Parseable(b.timestamp)
              /\ AbsentVersusPresent(a, b)
              /\ HalfHourFloor(InstantOf(a.timestamp)) = HalfHourFloor(InstantOf(b.timestamp)) )
            => \E ra, rb \in store :
                 /\ ra.id # rb.id
                 /\ RecordLocation(ra) = LocationOf(a)
                 /\ RecordLocation(rb) = LocationOf(b)
                 /\ IsMeanOf(ra, SameLocationAndHalfHour(a))
                 /\ IsMeanOf(rb, SameLocationAndHalfHour(b))

\* C5: whatever text a floor or space id is, a point with it and a point without
\* floor (or space) in the same building never share a group key or record id
\* for one timestamp, in either aggregator.
C5_SentinelIsNoLegalId ==
    lastOp.op \in {"backfill", "incremental"} =>
        \A a, b \in LastRows :
            (AbsentVersusPresent(a, b) /\ a.timestamp = b.timestamp)
            => \E ra, rb \in store :
                 /\ ra.id # rb.id
                 /\ ra.timestamp = rb.timestamp
                 /\ RecordLocation(ra) = LocationOf(a)
                 /\ RecordLocation(rb) = LocationOf(b)

\* The bucket start C6 names for a timestamp given in UTC: its date and hour,
\* minute 00 below minute 30 and minute 30 from there on, second 0.
UtcBucketOf(ts) ==
    LET d == ts.t \div Day
        h == (ts.t % Day) \div 3600
        m == (ts.t % 3600) \div 60
    IN TS("sql", d * Day + h * 3600 + (IF m < 30 THEN 0 ELSE 30) * 60, 0)

\* C6: backfill puts a sample whose timestamp is given in UTC into the bucket of
\* its date and hour, minute 00 or 30: the record under the sample's key stands
\* there.
C6_UtcSampleBucket ==
    lastOp.op = "backfill" =>
        \A r \in LastRows :
            r.timestamp.fmt = "Z" =>
                \E rec \in store :
                    /\ rec.timestamp = UtcBucketOf(r.timestamp)
                    /\ rec.id = RecordKey(LocationOf(r)[1], LocationOf(r)[2], LocationOf(r)[3],
                                          UtcBucketOf(r.timestamp))
                    /\ HasHalfHourKwh(rec)

\* 12:29:59 went to 12:00:00 and 12:30:00 to 12:30:00 in one backfill call.
C6_Witness ==
    /\ lastOp.op = "backfill"
    /\ \E r1, r2 \in LastRows :
          /\ r1.timestamp = TS("Z", HMS(12, 29, 59), 0)
          /\ r2.timestamp = TS("Z", HMS(12, 30, 0), 0)
    /\ \E rec1, rec2 \in store :
          /\ rec1.timestamp = TS("sql", HMS(12, 0, 0), 0)
          /\ rec2.timestamp = TS("sql", HMS(12, 30, 0), 0)
          /\ HasHalfHourKwh(rec1) /\ HasHalfHourKwh(rec2)

\* C7: for every offset a sample timestamp carries, backfill writes its record at
\* the instant converted to UTC and floored to the half hour.
C7_BucketIsUtcHalfHour ==
    lastOp.op = "backfill" =>
        \A r \in LastRows :
            r.timestamp.fmt \in {"Z", "off"} =>
                \E rec \in store :
                    /\ rec.timestamp = TS("sql", HalfHourFloor(InstantOf(r.timestamp)), 0)
                    /\ rec.timestamp.t % HalfHour = 0
                    /\ rec.building_id = LocationOf(r)[1]
                    /\ HasHalfHourKwh(rec)

\* The selected rows backfill put into the group of this id.
GroupRows(id) ==
    { q \in LastRows :
        /\ Parseable(q.timestamp)
        /\ RecordKey(LocationOf(q)[1], LocationOf(q)[2], LocationOf(q)[3],
                     BucketStr(q.timestamp, now)) = id }

\* C8: every group of a backfill call is stored with the mean of its selected
\* watt values (float64_value before float32_value) and with kWh = mean / 1000 / 2.
C8_BackfillStoresMean ==
    lastOp.op = "backfill" =>
        \A rec \in store :
            GroupRows(rec.id) # {} => IsMeanOf(rec, GroupRows(rec.id))

\* A group of two rows with different values, one of them taken from
\* float64_value although float32_value is present, stored as 200 W and 0.1 kWh.
C8_Witness ==
    /\ lastOp.op = "backfill"
    /\ \E rec \in store :
          /\ Cardinality(GroupRows(rec.id)) = 2
          /\ \E q \in GroupRows(rec.id) :
                q.float64_value # NullNum /\ q.float32_value # NullNum
          /\ rec.total_watts = <<200, 1>>
          /\ rec.total_kwh = <<1, 10>>

\* C9: every record of the store has total_kwh = (total_watts / 1000) * 0.5.
C9_KwhIsHalfHourEnergy == \A rec \in store : HasHalfHourKwh(rec)

\* The rows the call of this step selects.
CallRows == { r \in series :
                /\ Eligible(r)
                /\ (lastOp'.start_time # NoTime => TextGE(r.timestamp, lastOp'.start_time))
                /\ (lastOp'.end_time # NoTime => TextLE(r.timestamp, lastOp'.end_time)) }

\* C10: an aggregator call that finds no eligible sample returns 0 and leaves the
\* Consumption Store as it was, rebuild or not.
C10_EmptyInputWritesNothing ==
    [][ (IsCall /\ CallRows = {}) => (lastOp'.ret = 0 /\ store' = store) ]_vars

\* A rebuild backfill found no sample while the store held a record inside the
\* window it would have deleted.
C10_Witness ==
    /\ lastOp.op = "backfill" /\ lastOp.rebuild /\ lastOp.ret = 0
    /\ LastRows = {}
    /\ series # {}
    /\ RebuildDelete(store, lastOp.start_time, lastOp.end_time) # store

\* The store the completed call of this step leaves when the Reading Store is rs.
StoreAfterCall(rs) ==
    IF lastOp'.op = "backfill"
    THEN BackfillStore(store, rs, lastOp'.start_time, lastOp'.end_time,
                       lastOp'.rebuild, now)
    ELSE UpsertAll(store, IncrementalWrites(rs, now))

\* The step is an aggregator call that returns.
IsCompletedCall == IsCall /\ lastOp'.op \in {"backfill", "incremental"}

\* C11: a reading of a point whose unit is not exactly 'Watt' (or is null)
\* changes nothing: each aggregator leaves the store it would leave with that
\* reading absent from the Reading Store.
C11_NonWattReadingChangesNothing ==
    [][ IsCompletedCall =>
          \A r \in series :
              PointOf(r.point_id).unit_name # Watt
              => store' = StoreAfterCall(series \ {r}) ]_vars

\* An aggregator ran over a reading of a point without unit and a Watt reading
\* of the same location, and the record holds the Watt reading's value alone.
C11_Witness ==
    /\ lastOp.op \in {"backfill", "incremental"}
    /\ \E r, q \in series :
          /\ PointOf(r.point_id).unit_name = None
          /\ r.float64_value # NullNum
          /\ PointOf(q.point_id).unit_name = Watt
          /\ LocationOf(q) = LocationOf(r)
          /\ WattValue(q) # WattValue(r)
          /\ \E rec \in store :
                /\ RecordLocation(rec) = LocationOf(q)
                /\ rec.total_watts = <<WattValue(q), 1>>

\* The bucket start derived from the wall clock: the clock's UTC half hour.
NowBucket == TS("sql", HalfHourFloor(now), 0)

\* The elements of a sequence.
Range(seq) == { seq[i] : i \in 1..Len(seq) }

\* C12: in every backfill call, windowed or not, an eligible sample whose
\* timestamp cannot be parsed is accumulated into the bucket of the current
\* wall-clock time, and the records of the other buckets are those the call
\* writes without that sample.
C12_MalformedTimestampAggregated ==
    [][ (IsCall /\ lastOp'.op = "backfill") =>
          \A r \in series :
              (Eligible(r) /\ ~Parseable(r.timestamp)) =>
                  /\ \E rec \in store' :
                        /\ rec.timestamp = NowBucket
                        /\ RecordLocation(rec) = LocationOf(r)
                        /\ rec.calculation_timestamp = now
                        /\ rec.total_watts = <<WattValue(r), 1>>
                  /\ \A w \in Range(BackfillWrites(series \ {r}, lastOp'.start_time,
                                                    lastOp'.end_time, now)) :
                        w.timestamp # NowBucket => w \in store' ]_vars

\* The instant lies in the window [start_time, end_time), an omitted side being
\* unbounded.
InWindow(t, start_time, end_time) ==
    /\ (start_time # NoTime => InstantOf(start_time) <= t)
    /\ (end_time # NoTime => t < InstantOf(end_time))

\* C13: backfill selects an eligible sample exactly when start_time <= its
\* instant < end_time, whatever the textual forms of the timestamp and of the
\* bounds: equal to start_time is in, equal to end_time is out.
C13_WindowIsHalfOpenOnInstants ==
    lastOp.op = "backfill" =>
        \A r \in series :
            (Eligible(r) /\ Parseable(r.timestamp)) =>
                ( JoinRow(r) \in BackfillRows(series, lastOp.start_time, lastOp.end_time)
                  <=> InWindow(InstantOf(r.timestamp), lastOp.start_time, lastOp.end_time) )

\* C14: after a rebuild backfill that found a sample, every record whose bucket
\* start lies inside the window is one this call wrote from its samples (so no
\* earlier record survives there unless re-written), and every record the call
\* wrote is in the store (the delete came before the upserts).
C14_RebuildRemovesStaleBuckets ==
    [][ ( /\ IsCall
          /\ lastOp'.op = "backfill" /\ lastOp'.rebuild
          /\ CallRows # {} )
        => LET writes == Range(BackfillWrites(series, lastOp'.start_time,
                                              lastOp'.end_time, now))
           IN /\ \A r \in store' :
                    ( /\ Parseable(r.timestamp)
                      /\ InWindow(InstantOf(r.timestamp), lastOp'.start_time,
                                  lastOp'.end_time) )
                    => r \in writes
              /\ writes \subseteq store' ]_vars

\* C15: a rebuild backfill, whether it returns or is cut short by a failing
\* upsert or a crash, leaves the durable store either as it was before the call
\* or as the completed call leaves it.
C15_RebuildIsAllOrNothing ==
    [][ ( /\ IsCall
          /\ lastOp'.op \in {"backfill", "backfill_failed"}
          /\ lastOp'.rebuild )
        => \/ store' = store
           \/ store' = BackfillStore(store, series, lastOp'.start_time,
                                     lastOp'.end_time, TRUE, now) ]_vars

\* The record ids of a store.
Ids(st) == { r.id : r \in st }

EligibleRows == { r \in series : Eligible(r) }

\* The distinct (building, floor, space, raw timestamp) combinations among the
\* eligible samples.
RawCombinations == { <<LocationOf(r), r.timestamp>> : r \in EligibleRows }

\* C17: the incremental aggregator writes as many records as there are distinct
\* (building, floor, space, raw timestamp) combinations among the eligible
\* samples; run again on the same Reading Store it adds no record and changes no
\* watt or kWh value.
C17_IncrementalOneRowPerCombination ==
    [][ (IsCall /\ lastOp'.op = "incremental") =>
          /\ lastOp'.ret = Cardinality(RawCombinations)
          /\ Cardinality(Range(IncrementalWrites(series, now)) \cap store')
                 = Cardinality(RawCombinations)
          /\ (lastOp.op = "incremental" => Content(store') = Content(store)) ]_vars

\* The eligible samples of the record's location and raw timestamp.
ContributingRows(rec) ==
    { r \in EligibleRows :
        LocationOf(r) = RecordLocation(rec) /\ r.timestamp = rec.timestamp }

\* C18: a record the incremental aggregator writes from two or more readings of
\* one location holds sum / count of their watt values.
C18_IncrementalStoresMean ==
    lastOp.op = "incremental" =>
        \A rec \in store :
            Cardinality(ContributingRows(rec)) >= 2 =>
                rec.total_watts[1] * Cardinality(ContributingRows(rec))
                    = rec.total_watts[2] * SumWatts(ContributingRows(rec))

\* C19: when the incremental aggregator fails after some of its upserts, the
\* caller gets the failure and the records upserted before it are in the
\* durable store.
C19_IncrementalKeepsPartialWrites ==
    [][ (IsCall /\ lastOp'.op = "incremental_failed" /\ lastOp'.done >= 1) =>
          /\ lastOp'.ret = -1
          /\ \A i \in 1..lastOp'.done :
                IncrementalWrites(series, now)[i] \in store' ]_vars

\* The records the completed call of this step writes.
CallWrites ==
    IF lastOp'.op = "backfill"
    THEN Range(BackfillWrites(series, lastOp'.start_time, lastOp'.end_time, now))
    ELSE Range(IncrementalWrites(series, now))

\* The distinct (location, bucket start) groups of the samples the call selects;
\* the incremental aggregator's bucket start is the raw timestamp.
CallGroups ==
    { <<LocationOf(r),
        IF lastOp'.op = "backfill" THEN BucketStr(r.timestamp, now) ELSE r.timestamp>> :
      r \in CallRows }

\* C20: the integer an aggregator returns is the number of records the call
\* wrote or replaced, which is the number of records of the store that carry the
\* call's calculation timestamp, and the number of distinct (location, bucket
\* start) groups of the selected samples.
C20_ReturnsNumberOfRecordsWritten ==
    [][ IsCompletedCall =>
          /\ lastOp'.ret = Cardinality(CallWrites \cap store')
          /\ (\A r \in store : r.calculation_timestamp # now)
                => lastOp'.ret
                     = Cardinality({ r \in store' : r.calculation_timestamp = now })
          /\ lastOp'.ret = Cardinality(CallGroups) ]_vars

\* C25: once a point_series row of a (point_id, timestamp) exists, no later
\* upsert_point_series changes its value fields.
C25_RawSamplesImmutable ==
    [][ \A r \in series :
          \E q \in series' :
              /\ SameSeriesId(q, r.point_id, r.timestamp)
              /\ q.float64_value = r.float64_value
              /\ q.float32_value = r.float32_value ]_vars

\* The orders in which the elements of a set can be iterated.
Orders(S) ==
    { f \in [1..Cardinality(S) -> S] :
        \A i, j \in 1..Cardinality(S) : f[i] = f[j] => i = j }

\* The records backfill writes when it iterates the selected rows in this order.
WritesInOrder(rows) ==
    LET buckets == BackfillBuckets(rows, now, <<>>)
    IN { BackfillRecord(buckets[i], now) : i \in 1..Len(buckets) }

\* C26: the records a backfill call writes, and the store it leaves, are the
\* same for every order of iteration over the selected samples and every order
\* of the upserts.
C26_OrderIndependent ==
    [][ (IsCall /\ lastOp'.op = "backfill" /\ CallRows # {}) =>
          LET rows == BackfillRows(series, lastOp'.start_time, lastOp'.end_time)
              base == IF lastOp'.rebuild
                      THEN RebuildDelete(store, lastOp'.start_time, lastOp'.end_time)
                      ELSE store
          IN \A o \in Orders(rows) :
                /\ WritesInOrder(o) = CallWrites
                /\ \A u \in Orders(WritesInOrder(o)) : UpsertAll(base, u) = store' ]_vars

\* The id the aggregators derive for a sample's location and a bucket start.
KeyOf(r, ts) == RecordKey(LocationOf(r)[1], LocationOf(r)[2], LocationOf(r)[3], ts)

\* C27: the record id is injective in (building_id, floor_id, space_id, bucket
\* start), ids with '_' included: samples of one timestamp whose locations differ
\* get different ids, and each location has its own record in the store.
C27_RecordIdInjective ==
    lastOp.op \in {"backfill", "incremental"} =>
        \A a, b \in LastRows :
            (LocationOf(a) # LocationOf(b) /\ a.timestamp = b.timestamp) =>
                /\ KeyOf(a, a.timestamp) # KeyOf(b, b.timestamp)
                /\ \E ra, rb \in store :
                      /\ ra.id # rb.id
                      /\ RecordLocation(ra) = LocationOf(a)
                      /\ RecordLocation(rb) = LocationOf(b)

\* C23: the backfill endpoint answers success with the aggregator's count only
\* for a call that completed; a call that raised is answered 500 with the
\* failure's message and leaves the Consumption Store as it was.
C23_BackfillEndpointAllOrError ==
    [][ (IsCall /\ lastOp'.op \in {"backfill", "backfill_failed"}) =>
          LET response == backfill_energy(lastOp')
          IN IF lastOp'.op = "backfill"
             THEN /\ response.status_code = 200 /\ response.success
                  /\ response.recordsProcessed = Cardinality(CallWrites)
             ELSE /\ response.status_code = 500
                  /\ response.detail = "str(e)"
                  /\ store' = store ]_vars

\* C24: every run (an aggregation call or a _run_sync, ended well or not)
\* appends exactly one sync_status record, no record already written is changed
\* or removed, and there are as many records as runs so far.
C24_OneStatusRecordPerRun ==
    [][ /\ Len(sync_status') >= Len(sync_status)
        /\ SubSeq(sync_status', 1, Len(sync_status)) = sync_status
        /\ (IsCall => Len(sync_status') = Len(sync_status) + 1)
        /\ Len(sync_status') = nOps' ]_vars

IsSyncRun == IsCall /\ lastOp'.op = "sync"

\* Sums over the steps of a run: the records of the steps that returned, and
\* their error counts plus one for each step that raised.
SumRecords(r) ==
    (IF r.building_result.attempted /\ ~r.building_result.raised
     THEN r.building_result.records_synced ELSE 0)
    + (IF r.energy_result.attempted /\ ~r.energy_result.raised
       THEN r.energy_result.records_synced ELSE 0)
SumErrors(r) ==
    (IF r.building_result.raised THEN 1 ELSE r.building_result.errors_count)
    + (IF r.energy_result.raised THEN 1 ELSE r.energy_result.errors_count)

\* What a run that reached its steps answers and records.
RunOutcome(r) ==
    /\ r.building_result.attempted /\ r.energy_result.attempted
    /\ r.records_synced = SumRecords(r)
    /\ r.errors_count = SumErrors(r)
    /\ r.success <=> r.errors_count = 0
    /\ IF r.recorded
       THEN /\ Len(sync_status') = Len(sync_status) + 1
            /\ SubSeq(sync_status', 1, Len(sync_status)) = sync_status
            /\ LET rec == sync_status'[Len(sync_status')]
               IN /\ rec.status = "completed" <=> r.success
                  /\ rec.status = "completed_with_errors" <=> ~r.success
                  /\ rec.sync_type = r.sync_type
                  /\ rec.records_synced = r.records_synced
                  /\ rec.errors_count = r.errors_count
       ELSE sync_status' = sync_status

\* C28 as stated: in every run of _run_sync the energy step is attempted
\* whatever the building step did, records_synced and errors_count are the
\* sums over both steps (plus one per step that raised), success is true
\* exactly when errors_count is 0, the status record written says 'completed'
\* exactly when success is true and 'completed_with_errors' otherwise, and a
\* failed write of the status record leaves the result as it is.
C28_RunSyncOutcome_AsStated ==
    [][ IsSyncRun => RunOutcome(lastOp') ]_vars

\* C28 as the code has it: the statement holds for every run whose database
\* initialization (and last-sync lookup) succeeded; a run in which that raises
\* attempts no step, writes no status record and answers success false with
\* records_synced 0 and errors_count 1.
C28_RunSyncOutcome ==
    [][ IsSyncRun =>
          IF lastOp'.building_result.attempted
          THEN RunOutcome(lastOp')
          ELSE /\ ~lastOp'.energy_result.attempted
               /\ ~lastOp'.success
               /\ lastOp'.records_synced = 0
               /\ lastOp'.errors_count = 1
               /\ ~lastOp'.recorded
               /\ sync_status' = sync_status ]_vars

\* A run whose building step raised, whose energy step returned one record,
\* and whose status record was written.
C28_Witness ==
    /\ lastOp.op = "sync"
    /\ lastOp.building_result.raised
    /\ lastOp.energy_result = StepReturned(1, 0)
    /\ lastOp.recorded
    /\ lastOp.records_synced = 1 /\ lastOp.errors_count = 1 /\ ~lastOp.success
    /\ Len(sync_status) > 0
    /\ sync_status[Len(sync_status)].status = "completed_with_errors"

\* C29: an incremental run that reaches its steps after an earlier run wrote
\* its status record starts from that record's timestamp: last_sync is not
\* None and is the timestamp of the most recent record.
C29_IncrementalStartsFromLastRun ==
    [][ (/\ IsSyncRun
         /\ lastOp'.sync_type = "incremental"
         /\ lastOp'.building_result.attempted
         /\ Len(sync_status) > 0) =>
          /\ lastOp'.last_sync # NullNum
          /\ \E i \in 1..Len(sync_status) :
                /\ lastOp'.last_sync = <<sync_status[i].last_sync_timestamp>>
                /\ \A j \in 1..Len(sync_status) :
                      sync_status[j].created_at <= sync_status[i].created_at ]_vars

\* C30: a population response says cached = true exactly when its data came
\* from an entry younger than 10 minutes and the file was not read; with the
\* entry absent or expired the file is read, the entry is replaced with the
\* current time, and cached is false.
C30_CachedFlagMeansServedFromCache ==
    [][ (now' = now /\ lastOp'.op = "population" /\ lastOp'.status_code = 200) =>
          LET entry == _population_cache[lastOp'.source]
              unexpired == entry # NoEntry /\ now * 1000 - entry.ts < 10 * 60 * 1000
          IN /\ lastOp'.cached <=> (unexpired /\ ~lastOp'.file_read)
             /\ unexpired => lastOp'.data = entry.data
             /\ ~unexpired =>
                   /\ lastOp'.file_read
                   /\ _population_cache'[lastOp'.source].ts = now * 1000
                   /\ _population_cache'[lastOp'.source].data = lastOp'.data
                   /\ ~lastOp'.cached ]_vars

ReadOps == { "get_energy", "energy_consumption", "analytics_historical", "get_buildings" }

\* A step that answers a request to one of the read endpoints.
IsRead == lastOp'.op \in ReadOps /\ nOps' = nOps /\ now' = now

Zero == <<0, 1>>

\* C22: a request that no record matches is answered with success and a
\* summary whose totals and averages are the number 0 (not NULL): total_watts,
\* total_kwh, avg_watts of energy_consumption; avg_consumption,
\* total_consumption, avg_cost, total_cost of get_energy; totalConsumption,
\* totalCost, avgEfficiency, consumptionTrend, costTrend of analytics_historical.
C22_EmptyResultGivesZeroSummary ==
    [][ IsRead =>
          LET r == lastOp'
          IN CASE r.op = "energy_consumption" ->
                    Where(store, r.buildingId, r.start_time, r.end_time) = {} =>
                        /\ r.success
                        /\ r.summary.total_watts = Zero
                        /\ r.summary.total_kwh = Zero
                        /\ r.summary.avg_watts = Zero
               [] r.op = "get_energy" ->
                    Where(store, r.buildingId,
                          isoformat(now - get_time_range_duration(r.timeRange)), NoTime) = {} =>
                        /\ r.success
                        /\ r.summary.avg_consumption = Zero
                        /\ r.summary.total_consumption = Zero
                        /\ r.summary.avg_cost = Zero
                        /\ r.summary.total_cost = Zero
               [] r.op = "analytics_historical" ->
                    r.recordCount = 0 =>
                        /\ r.success
                        /\ r.summary.totalConsumption = Zero
                        /\ r.summary.totalCost = Zero
                        /\ r.summary.avgEfficiency = Zero
                        /\ r.summary.consumptionTrend = Zero
                        /\ r.summary.costTrend = Zero
               [] OTHER -> TRUE ]_vars

====
